---- MODULE Spec2Model ----
(***************************************************************************)
(* Model of src/src/02_parquet2geopkg-poly.py: the Voronoi polygon         *)
(* pipeline (main) and the Welsh-Powell colouring (apply_graph_coloring).  *)
(*                                                                         *)
(* Geometry is discrete.  The plane is a finite grid of sites; a geometry  *)
(* is a set of parts, each part a set of sites, with the validity flag     *)
(* shapely reports (is_valid).  Address points sit on sites with even      *)
(* coordinates, so the bisector of two points always runs through sites:   *)
(* closed Voronoi cells of neighbouring points share their border sites,   *)
(* and two geometries intersect exactly when they share a site.  One grid  *)
(* unit is 500 m (1/182 of a degree).                                      *)
(***************************************************************************)
EXTENDS Integers, Sequences, FiniteSets, TLC

VARIABLES
    pc,                  \* position in main / apply_graph_coloring
    df,                  \* the points: 0..n-1 -> [lon, lat, zip_code]
    boundary_file,       \* what args.boundary holds on disk
    clip_boundary,       \* main's clip_boundary
    voronoi_gdf,         \* one row per point
    dissolved_gdf,       \* one row per ZIP code
    simplified_gdf,      \* the frame handed to apply_graph_coloring
    adjacency,           \* apply_graph_coloring: node -> set of nodes
    i,                   \* apply_graph_coloring: index of the adjacency loop
    pos,                 \* apply_graph_coloring: how many nodes the greedy loop has taken
    nodes,               \* apply_graph_coloring: processing order
    colors,              \* apply_graph_coloring: the dict node -> colour
    node,                \* apply_graph_coloring: the loop variable of the greedy loop
    used_neighbor_colors,
    color,               \* apply_graph_coloring: the candidate colour
    result_gdf,          \* the coloured frame
    exported,            \* the rows written to the GeoPackage
    error                \* the exception that ended the run, "" if none

vars == <<pc, df, boundary_file, clip_boundary, voronoi_gdf, dissolved_gdf,
          simplified_gdf, adjacency, i, pos, nodes, colors, node,
          used_neighbor_colors, color, result_gdf, exported, error>>

colorVars == <<adjacency, i, pos, nodes, colors, node, used_neighbor_colors, color>>

-----------------------------------------------------------------------------
(* Bounds and configuration *)

MaxPoints == 4          \* most rows of the points frame
MaxPolys == 4           \* most polygons handed to the colouring on its own

BUFFER_RADIUS_METERS == 500
VORONOI_CLIP_BUFFER_METERS == 500
MIN_VORONOI_POINTS == 4
MIN_HULL_POINTS == 3
MIN_REGION_VERTICES == 3

ZipCodes == {11000, 25001}
Xs == {0, 2, 4}
Ys == {0, 2}
PointSites == Xs \X Ys
Plane == (-1..5) \X (-1..3)

-----------------------------------------------------------------------------
(* Discrete geometry: what shapely, scipy and geopandas compute *)

Dist2(a, b) == (a[1] - b[1]) * (a[1] - b[1]) + (a[2] - b[2]) * (a[2] - b[2])

Min(S) == CHOOSE x \in S : \A y \in S : x <= y
Max(S) == CHOOSE x \in S : \A y \in S : x >= y

Len0(f) == Cardinality(DOMAIN f)

\* parts that share a site are one part
RECURSIVE MergeParts(_)
MergeParts(parts) ==
    IF \E a, b \in parts : a # b /\ a \cap b # {}
    THEN LET pr == CHOOSE pr \in parts \X parts :
                       pr[1] # pr[2] /\ pr[1] \cap pr[2] # {}
         IN MergeParts((parts \ {pr[1], pr[2]}) \cup {pr[1] \cup pr[2]})
    ELSE parts

TypeOf(parts) == IF Cardinality(parts) > 1 THEN "MultiPolygon" ELSE "Polygon"

\* a geometry: its parts as explicit sets of sites, without empty parts
Geom(parts, valid) ==
    CHOOSE g \in {[type |-> TypeOf(ps), parts |-> ps, valid |-> valid]
                     : ps \in {{q \in {{s : s \in p} : p \in parts} : q # {}}}} : TRUE

Cells(g) == UNION g.parts

NoneGeom == [type |-> "None", parts |-> {}, valid |-> FALSE]

meters_to_degrees(meters) == (meters * 182) \div 91000

\* geometry.buffer(r), r > 0: every site within r of the geometry
Buffer(cells, r) ==
    UNION {{s \in Plane : \E c \in given : Dist2(s, c) <= r * r} : given \in {cells}}

PointBuffer(c, r) == Geom({Buffer({c}, r)}, TRUE)

\* geometry.buffer(0): the repair; repaired says whether the result is valid
Buffer0(g, repaired) == Geom(MergeParts(g.parts), repaired)

\* geometry.simplify(tolerance, preserve_topology=True): the tolerance is below
\* the grid resolution, so the extent stays; the result may be invalid
Simplify(g, broken) == [g EXCEPT !.valid = g.valid /\ ~broken]

\* shapely.ops.unary_union of a set of geometries
UnaryUnion(geoms) ==
    Geom(MergeParts(UNION {g.parts : g \in geoms}), \A g \in geoms : g.valid)

Intersection(g, h) == Geom({p \cap Cells(h) : p \in g.parts}, g.valid /\ h.valid)

Intersects(g, h) == Cells(g) \cap Cells(h) # {}

InBox(s, minx, miny, maxx, maxy) ==
    minx <= s[1] /\ s[1] <= maxx /\ miny <= s[2] /\ s[2] <= maxy

\* shapely.geometry.box
BoxCells(minx, miny, maxx, maxy) == {s \in Plane : InBox(s, minx, miny, maxx, maxy)}

Orient(a, b, c) == (b[1] - a[1]) * (c[2] - a[2]) - (b[2] - a[2]) * (c[1] - a[1])

Collinear(P) == \A a, b, c \in P : Orient(a, b, c) = 0

InTriangle(s, a, b, c) ==
    LET o1 == Orient(a, b, s)
        o2 == Orient(b, c, s)
        o3 == Orient(c, a, s)
    IN /\ \/ (o1 >= 0 /\ o2 >= 0 /\ o3 >= 0)
          \/ (o1 <= 0 /\ o2 <= 0 /\ o3 <= 0)
       /\ InBox(s, Min({a[1], b[1], c[1]}), Min({a[2], b[2], c[2]}),
                   Max({a[1], b[1], c[1]}), Max({a[2], b[2], c[2]}))

\* the sites of Polygon(coords[ConvexHull(coords).vertices])
HullCells(P) == {s \in Plane : \E a, b, c \in P : InTriangle(s, a, b, c)}

Coords(frame) == [r \in DOMAIN frame |-> <<frame[r].lon, frame[r].lat>>]
CoordSet(frame) == {Coords(frame)[r] : r \in DOMAIN frame}

-----------------------------------------------------------------------------
(* Inputs *)

\* two ways the address points can lie: row by row (the first three on one
\* line) and column by column
Layouts ==
    { << <<0, 0>>, <<2, 0>>, <<4, 0>>, <<0, 2>>, <<2, 2>>, <<4, 2>> >>,
      << <<0, 0>>, <<0, 2>>, <<2, 0>>, <<2, 2>>, <<4, 0>>, <<4, 2>> >> }

\* the frames load_points can return: the first n points of a layout, one row
\* per address point, each with a 5-digit ZIP code
PointFrames ==
    UNION {
        {[r \in 0..(n - 1) |->
              [lon |-> layout[r + 1][1], lat |-> layout[r + 1][2],
               zip_code |-> z[r]]] : z \in [0..(n - 1) -> ZipCodes]}
        : <<layout, n>> \in Layouts \X (1..MaxPoints)}

Country == BoxCells(-1, -1, 3, 3)
West == BoxCells(-1, -1, 1, 3)
East == BoxCells(1, -1, 3, 3)
Island == BoxCells(3, -1, 5, 3)

\* what args.boundary can hold: no file, a file without features, or a file
\* whose first feature is a polygon, a self-intersecting polygon (invalid), a
\* multi-polygon of two overlapping parts, or one of two disjoint parts
BoundaryFiles ==
    { [exists |-> FALSE, rows |-> <<>>],
      [exists |-> TRUE, rows |-> <<>>],
      [exists |-> TRUE, rows |-> <<Geom({Country}, TRUE)>>],
      [exists |-> TRUE, rows |-> <<Geom({Country}, FALSE)>>],
      [exists |-> TRUE, rows |-> <<Geom({West, East}, TRUE)>>],
      [exists |-> TRUE, rows |-> <<Geom({West, Island}, TRUE)>>] }

NoFrame == <<>>

Init ==
    /\ pc = "load_boundary"
    /\ df \in PointFrames
    /\ boundary_file \in BoundaryFiles
    /\ clip_boundary = NoneGeom
    /\ voronoi_gdf = NoFrame
    /\ dissolved_gdf = NoFrame
    /\ simplified_gdf = NoFrame
    /\ adjacency = <<>>
    /\ i = 0
    /\ pos = 0
    /\ nodes = <<>>
    /\ colors = <<>>
    /\ node = 0
    /\ used_neighbor_colors = {}
    /\ color = 0
    /\ result_gdf = NoFrame
    /\ exported = NoFrame
    /\ error = ""

-----------------------------------------------------------------------------
(* Clip boundary *)

\* Polygon(coords[hull.vertices]).buffer(buffer_deg) for every point set main
\* can pass, at the configured margin (computed once)
HullBufferTable ==
    [P \in (SUBSET PointSites) \ {{}} |->
        Buffer(HullCells(P), meters_to_degrees(VORONOI_CLIP_BUFFER_METERS))] @@ <<>>

Ok(v) == [raised |-> "", value |-> v]
Raise(e) == [raised |-> e, value |-> NoneGeom]

\* load_boundary_from_file; repaired1, broken, repaired2 are what the two
\* buffer(0) calls and the simplify call turn out
load_boundary_from_file(file, repaired1, broken, repaired2) ==
    IF ~file.exists THEN Ok(NoneGeom)
    ELSE IF Len(file.rows) = 0 THEN Ok(NoneGeom)
    ELSE LET first == file.rows[1]
             unioned == IF first.type = "MultiPolygon"
                        THEN UnaryUnion({first}) ELSE first
             valid1 == IF ~unioned.valid THEN Buffer0(unioned, repaired1)
                       ELSE unioned
             simplified == Simplify(valid1, broken)
             valid2 == IF ~simplified.valid THEN Buffer0(simplified, repaired2)
                       ELSE simplified
         IN IF valid1.type # "Polygon" THEN Raise("AttributeError")
            ELSE IF valid2.type # "Polygon" THEN Raise("AttributeError")
            ELSE Ok(valid2)

create_clip_boundary_from_hull(frame, buffer_meters) ==
    LET coords == CoordSet(frame)
        buffer_deg == meters_to_degrees(buffer_meters)
    IN IF Len0(frame) < MIN_HULL_POINTS
       THEN Ok(Geom({BoxCells(Min({c[1] : c \in coords}) - buffer_deg,
                              Min({c[2] : c \in coords}) - buffer_deg,
                              Max({c[1] : c \in coords}) + buffer_deg,
                              Max({c[2] : c \in coords}) + buffer_deg)}, TRUE))
       ELSE IF Collinear(coords) THEN Raise("QhullError")
       ELSE IF buffer_meters = VORONOI_CLIP_BUFFER_METERS
       THEN Ok(Geom({HullBufferTable[coords]}, TRUE))
       ELSE Ok(Geom({Buffer(HullCells(coords), buffer_deg)}, TRUE))

Crash(e) ==
    /\ pc' = "crashed"
    /\ error' = e

\* main, line 369
LoadBoundary ==
    /\ pc = "load_boundary"
    /\ \E repaired1, broken, repaired2 \in BOOLEAN :
         \E r \in {load_boundary_from_file(boundary_file, repaired1, broken, repaired2)} :
            IF r.raised # ""
            THEN Crash(r.raised) /\ UNCHANGED clip_boundary
            ELSE /\ clip_boundary' = r.value
                 /\ pc' = IF r.value = NoneGeom THEN "fallback" ELSE "voronoi"
                 /\ error' = error
    /\ UNCHANGED <<df, boundary_file, voronoi_gdf, dissolved_gdf, simplified_gdf,
                   result_gdf, exported>>
    /\ UNCHANGED colorVars

\* main, lines 370-372
FallbackToHull ==
    /\ pc = "fallback"
    /\ \E r \in {create_clip_boundary_from_hull(df, VORONOI_CLIP_BUFFER_METERS)} :
          IF r.raised # ""
          THEN Crash(r.raised) /\ UNCHANGED clip_boundary
          ELSE /\ clip_boundary' = r.value
               /\ pc' = "voronoi"
               /\ error' = error
    /\ UNCHANGED <<df, boundary_file, voronoi_gdf, dissolved_gdf, simplified_gdf,
                   result_gdf, exported>>
    /\ UNCHANGED colorVars

-----------------------------------------------------------------------------
(* Voronoi cells *)

\* the closed Voronoi cell of p among the points P, cut off at the far radius
\* (the edge of the plane)
VoronoiCell(P, p) == {s \in Plane : \A q \in P : Dist2(s, p) <= Dist2(s, q)}

VoronoiTable ==
    [P \in {T \in SUBSET PointSites : Cardinality(T) >= MIN_VORONOI_POINTS} |->
        [p \in P |-> VoronoiCell(P, p)]] @@ <<>>

\* scipy.spatial.Voronoi(coords).  scipy numbers the regions in its own order:
\* point p has region (p + shift) mod (n + 1), and the region left over is the
\* empty one.  A region has nverts vertices; degenerate names the point whose
\* region comes back with fewer than three, twisted the point whose vertex ring
\* crosses itself (-1: no such point).
Voronoi(coords, shift, degenerate, twisted) ==
    LET n == Len0(coords)
        P == {coords[r] : r \in DOMAIN coords}
        owner(g) == (g + n + 1 - shift) % (n + 1)
    IN [points |-> coords,
        point_region |-> [p \in 0..(n - 1) |-> (p + shift) % (n + 1)],
        regions |-> [g \in 0..n |->
            IF owner(g) < n
            THEN [nverts |-> IF owner(g) = degenerate THEN 2 ELSE 4,
                  cells |-> VoronoiTable[P][coords[owner(g)]],
                  simple |-> owner(g) # twisted]
            ELSE [nverts |-> 0, cells |-> {}, simple |-> TRUE]]]

\* faulty variant: the region list is read by scipy's region number
voronoi_finite_polygons_by_region(vor) ==
    [p1 \in DOMAIN vor.point_region |-> vor.regions[p1]]

\* voronoi_finite_polygons: one region per point, in point order.  Closing an
\* open region adds far vertices and sorts the ring; the extent of a region is
\* already cut off at the far radius.
voronoi_finite_polygons(vor) ==
    [p1 \in DOMAIN vor.point_region |-> vor.regions[vor.point_region[p1]]]

Frame(v) == [raised |-> "", value |-> v]
RaiseFrame(e) == [raised |-> e, value |-> NoFrame]

\* faulty variant: a region replaced by a point buffer is not clipped
ClippedCell_buffer_unclipped(coords, regions, clip, r, repaired) ==
    LET short == regions[r].nverts < MIN_REGION_VERTICES
        poly == IF short
                THEN PointBuffer(coords[r], meters_to_degrees(BUFFER_RADIUS_METERS))
                ELSE Geom({regions[r].cells}, regions[r].simple)
        clipped == IF clip # NoneGeom /\ ~short THEN Intersection(poly, clip) ELSE poly
    IN IF ~clipped.valid THEN Buffer0(clipped, repaired) ELSE clipped

\* lines 148-160 for row r: the polygon, clipped and repaired
ClippedCell(coords, regions, clip, r, repaired) ==
    LET poly == IF regions[r].nverts < MIN_REGION_VERTICES
                THEN PointBuffer(coords[r], meters_to_degrees(BUFFER_RADIUS_METERS))
                ELSE Geom({regions[r].cells}, regions[r].simple)
        clipped == IF clip # NoneGeom THEN Intersection(poly, clip) ELSE poly
    IN IF ~clipped.valid THEN Buffer0(clipped, repaired) ELSE clipped

\* whether row r's intersection hands GEOS an invalid operand
InvalidOperand(regions, clip, r) ==
    /\ clip # NoneGeom
    /\ \/ ~clip.valid
       \/ (regions[r].nverts >= MIN_REGION_VERTICES /\ ~regions[r].simple)

\* generate_voronoi_polygons.  throws: GEOS raises on an invalid operand instead
\* of answering; repaired: what buffer(0) turns out.
generate_voronoi_polygons(frame, clip, shift, degenerate, twisted, throws, repaired) ==
    LET coords == Coords(frame)
    IN IF Len0(frame) < MIN_VORONOI_POINTS
       THEN Frame([r \in DOMAIN frame |->
                [zip_code |-> frame[r].zip_code,
                 geometry |-> PointBuffer(coords[r],
                                  meters_to_degrees(BUFFER_RADIUS_METERS))]])
       ELSE CHOOSE out \in
              {IF throws /\ \E r \in DOMAIN frame : InvalidOperand(regions, clip, r)
               THEN RaiseFrame("GEOSException")
               ELSE Frame([r \in DOMAIN frame |->
                        [zip_code |-> frame[r].zip_code,
                         geometry |-> ClippedCell(coords, regions, clip, r, repaired)]])
               : regions \in {voronoi_finite_polygons(
                                  Voronoi(coords, shift, degenerate, twisted))}} : TRUE

\* what scipy can answer for a frame: any numbering of the regions and, when
\* the diagram is built at all, at most one odd region, that of row 2 (a point
\* that a boundary file can leave outside)
Shifts(frame) == IF Len0(frame) < MIN_VORONOI_POINTS THEN {0} ELSE 0..Len0(frame)
AnomalyRows(frame) == IF Len0(frame) < MIN_VORONOI_POINTS THEN {-1} ELSE {-1, 2}

\* main, line 376
GenerateVoronoi ==
    /\ pc = "voronoi"
    /\ \E shift \in Shifts(df), degenerate, twisted \in AnomalyRows(df),
          throws, repaired \in BOOLEAN :
         /\ degenerate = -1 \/ twisted = -1
         /\ throws => (twisted # -1 \/ ~clip_boundary.valid)
         /\ ~repaired => (twisted # -1 \/ ~clip_boundary.valid)
         /\ \E r \in {generate_voronoi_polygons(df, clip_boundary, shift, degenerate,
                                                twisted, throws, repaired)} :
              IF r.raised # ""
              THEN Crash(r.raised) /\ UNCHANGED voronoi_gdf
              ELSE /\ voronoi_gdf' = r.value
                   /\ pc' = "dissolve"
                   /\ error' = error
    /\ UNCHANGED <<df, boundary_file, clip_boundary, dissolved_gdf, simplified_gdf,
                   result_gdf, exported>>
    /\ UNCHANGED colorVars

-----------------------------------------------------------------------------
(* Dissolve, simplify, attributes *)

Codes(frame) == {frame[r].zip_code : r \in DOMAIN frame}

\* the ZIP codes of a frame in ascending order, as rows 0..m-1
SortedCodes(frame) ==
    [j \in 0..(Cardinality(Codes(frame)) - 1) |->
        CHOOSE z \in Codes(frame) : Cardinality({y \in Codes(frame) : y < z}) = j]

\* the ZIP codes of a frame in the order of their first rows
FirstSeenCodes(frame) ==
    [j \in 0..(Cardinality(Codes(frame)) - 1) |->
        CHOOSE z \in Codes(frame) :
            Cardinality({y \in Codes(frame) :
                Min({r \in DOMAIN frame : frame[r].zip_code = y})
                  < Min({r \in DOMAIN frame : frame[r].zip_code = z})}) = j]

\* faulty variant: the counts are attached by row position, not by ZIP code
dissolve_by_position(gdf) ==
    [j \in DOMAIN SortedCodes(gdf) |->
        LET group == {r \in DOMAIN gdf : gdf[r].zip_code = SortedCodes(gdf)[j]}
        IN [zip_code |-> SortedCodes(gdf)[j],
            geometry |-> UnaryUnion({gdf[r].geometry : r \in group}),
            point_count |-> Cardinality({r \in DOMAIN gdf :
                                gdf[r].zip_code = FirstSeenCodes(gdf)[j]})]]

\* dissolve_by_zip_code: one row per ZIP code in code order, the union of its
\* cells and the number of its rows
dissolve_by_zip_code(gdf) ==
    [j \in DOMAIN SortedCodes(gdf) |->
        LET group == {r \in DOMAIN gdf : gdf[r].zip_code = SortedCodes(gdf)[j]}
        IN [zip_code |-> SortedCodes(gdf)[j],
            geometry |-> UnaryUnion({gdf[r].geometry : r \in group}),
            point_count |-> Cardinality(group)]]

\* main, line 381
Dissolve ==
    /\ pc = "dissolve"
    /\ dissolved_gdf' = dissolve_by_zip_code(voronoi_gdf)
    /\ pc' = "simplify"
    /\ UNCHANGED <<df, boundary_file, clip_boundary, voronoi_gdf, simplified_gdf,
                   result_gdf, exported, error>>
    /\ UNCHANGED colorVars

\* simplify_and_smooth: broken names the row whose simplification comes out
\* invalid (-1: none), repaired what buffer(0) turns out
simplify_and_smooth(gdf, tolerance_meters, broken, repaired) ==
    [r \in DOMAIN gdf |->
        LET simplified == Simplify(gdf[r].geometry, r = broken)
        IN [gdf[r] EXCEPT !.geometry =
               IF ~simplified.valid THEN Buffer0(simplified, repaired)
               ELSE simplified]]

\* geometry.area * 111 * 71, rounded to two places, in hundredths of a km2
AreaKm2(g) == (Cardinality(Cells(g)) * 788100 + 16562) \div 33124

\* main, lines 386-393
SimplifyAndTag ==
    /\ pc = "simplify"
    /\ \E broken \in {-1, 0}, repaired \in BOOLEAN :
         simplified_gdf' =
            [r \in DOMAIN dissolved_gdf |->
                LET row == simplify_and_smooth(dissolved_gdf, 0, broken, repaired)[r]
                IN [zip_code |-> row.zip_code,
                    geometry |-> row.geometry,
                    point_count |-> row.point_count,
                    area_km2 |-> AreaKm2(row.geometry),
                    method |-> "voronoi"]]
    /\ pc' = "coloring"
    /\ UNCHANGED <<df, boundary_file, clip_boundary, voronoi_gdf, dissolved_gdf,
                   result_gdf, exported, error>>
    /\ UNCHANGED colorVars

-----------------------------------------------------------------------------
(* apply_graph_coloring *)

\* the frame main passes (line 396)
gdf == simplified_gdf

\* geometry.bounds: <<minx, miny, maxx, maxy>>, of a geometry that is not empty
Bounds(g) ==
    <<Min({s[1] : s \in Cells(g)}), Min({s[2] : s \in Cells(g)}),
      Max({s[1] : s \in Cells(g)}), Max({s[2] : s \in Cells(g)})>>

BoxesMeet(a, b) == a[1] <= b[3] /\ b[1] <= a[3] /\ a[2] <= b[4] /\ b[2] <= a[4]

\* list(gdf.sindex.intersection(geom.bounds)): the rows whose bounding box meets
\* that of geom; an empty geometry has no box and is not in the index
Candidates(frame, geom) ==
    IF Cells(geom) = {} THEN {}
    ELSE {j \in DOMAIN frame :
             /\ Cells(frame[j].geometry) # {}
             /\ BoxesMeet(Bounds(frame[j].geometry), Bounds(geom))}

\* the sites of a geometry with all four neighbours in it
Interior(g) ==
    {s \in Cells(g) : \A d \in {<<1, 0>>, <<-1, 0>>, <<0, 1>>, <<0, -1>>} :
        <<s[1] + d[1], s[2] + d[2]>> \in Cells(g)}

\* geom.touches(other): they meet, but not in their interiors
Touches(g, h) == Intersects(g, h) /\ Interior(g) \cap Interior(h) = {}

\* faulty variant: only the rows behind x are looked at
Neighbors_oneway(frame, x) ==
    {j \in Candidates(frame, frame[x].geometry) :
        /\ x < j
        /\ (Touches(frame[x].geometry, frame[j].geometry)
            \/ Intersects(frame[x].geometry, frame[j].geometry))}

\* faulty variant: the row itself is not left out
Neighbors_with_self(frame, x) ==
    {j \in Candidates(frame, frame[x].geometry) :
        Touches(frame[x].geometry, frame[j].geometry)
          \/ Intersects(frame[x].geometry, frame[j].geometry)}

\* lines 308-316 for row x: the rows adjacent to it
Neighbors(frame, x) ==
    {j \in Candidates(frame, frame[x].geometry) :
        /\ x # j
        /\ (Touches(frame[x].geometry, frame[j].geometry)
            \/ Intersects(frame[x].geometry, frame[j].geometry))}

\* sorted(..., reverse=True) works like a stable insertion: x goes behind every
\* element whose key is at least its own
RECURSIVE InsertByKey(_, _, _)
InsertByKey(seq, x, key) ==
    IF seq = <<>> THEN <<x>>
    ELSE IF key[Head(seq)] >= key[x]
         THEN <<Head(seq)>> \o InsertByKey(Tail(seq), x, key)
         ELSE <<x>> \o seq

\* faulty variant: the ascending sort turned round, ties end up in descending
\* index
SortedByDegree_reversed(adj) ==
    LET key == [x \in DOMAIN adj |-> 0 - Cardinality(adj[x])]
        n == Len0(adj)
        build[m \in 0..n] ==
            IF m = 0 THEN <<>> ELSE InsertByKey(build[m - 1], m - 1, key)
    IN [k \in 1..n |-> build[n][n + 1 - k]]

\* sorted(range(n), key=lambda x: len(adjacency[x]), reverse=True)
SortedByDegree(adj) ==
    LET key == [x \in DOMAIN adj |-> Cardinality(adj[x])]
        n == Len0(adj)
        build[m \in 0..n] ==
            IF m = 0 THEN <<>> ELSE InsertByKey(build[m - 1], m - 1, key)
    IN build[n]

ColorRest ==
    UNCHANGED <<df, boundary_file, clip_boundary, voronoi_gdf, dissolved_gdf,
                simplified_gdf, exported, error>>

\* lines 299-304
StartColoring ==
    /\ pc = "coloring"
    /\ adjacency' = [x \in DOMAIN gdf |-> {}]
    /\ i' = 0
    /\ pc' = "adjacency"
    /\ UNCHANGED <<pos, nodes, colors, node, used_neighbor_colors, color, result_gdf>>
    /\ ColorRest

\* lines 307-316, one pass of the outer loop
BuildAdjacency ==
    /\ pc = "adjacency"
    /\ i < Len0(gdf)
    /\ adjacency' = [adjacency EXCEPT ![i] = @ \cup Neighbors(gdf, i)]
    /\ i' = i + 1
    /\ UNCHANGED <<pc, pos, nodes, colors, node, used_neighbor_colors, color, result_gdf>>
    /\ ColorRest

\* faulty variant: the sort does not wait for the end of the adjacency loop
SortNodes_early ==
    /\ pc = "adjacency"
    /\ i <= Len0(gdf)
    /\ nodes' = SortedByDegree(adjacency)
    /\ colors' = <<>>
    /\ pos' = 0
    /\ pc' = "greedy"
    /\ UNCHANGED <<adjacency, i, node, used_neighbor_colors, color, result_gdf>>
    /\ ColorRest

\* lines 319-321
SortNodes ==
    /\ pc = "adjacency"
    /\ i = Len0(gdf)
    /\ nodes' = SortedByDegree(adjacency)
    /\ colors' = <<>>
    /\ pos' = 0
    /\ pc' = "greedy"
    /\ UNCHANGED <<adjacency, i, node, used_neighbor_colors, color, result_gdf>>
    /\ ColorRest

\* faulty variant: the colours of every coloured node, neighbour or not
UsedNeighborColors_all(adj, cols, x) == {cols[y] : y \in DOMAIN cols}

\* faulty variant: only the neighbours of lower row index are asked
UsedNeighborColors_lower(adj, cols, x) ==
    {cols[neighbor] : neighbor \in {y \in adj[x] : y \in DOMAIN cols /\ y < x}}

\* line 325
UsedNeighborColors(adj, cols, x) ==
    {cols[neighbor] : neighbor \in {y \in adj[x] : y \in DOMAIN cols}}

\* faulty variant: the search for a free colour starts at 1
PickNode_from_one ==
    /\ pc = "greedy"
    /\ pos < Len(nodes)
    /\ node' = nodes[pos + 1]
    /\ used_neighbor_colors' = UsedNeighborColors(adjacency, colors, nodes[pos + 1])
    /\ color' = 1
    /\ pc' = "while"
    /\ UNCHANGED <<adjacency, i, pos, nodes, colors, result_gdf>>
    /\ ColorRest

\* lines 324-328
PickNode ==
    /\ pc = "greedy"
    /\ pos < Len(nodes)
    /\ node' = nodes[pos + 1]
    /\ used_neighbor_colors' = UsedNeighborColors(adjacency, colors, nodes[pos + 1])
    /\ color' = 0
    /\ pc' = "while"
    /\ UNCHANGED <<adjacency, i, pos, nodes, colors, result_gdf>>
    /\ ColorRest

\* faulty variant: the candidate colour is not advanced
NextColor_stuck ==
    /\ pc = "while"
    /\ color \in used_neighbor_colors
    /\ color' = color
    /\ UNCHANGED <<pc, adjacency, i, pos, nodes, colors, node, used_neighbor_colors,
                   result_gdf>>
    /\ ColorRest

\* lines 329-330
NextColor ==
    /\ pc = "while"
    /\ color \in used_neighbor_colors
    /\ color' = color + 1
    /\ UNCHANGED <<pc, adjacency, i, pos, nodes, colors, node, used_neighbor_colors,
                   result_gdf>>
    /\ ColorRest

\* line 332
AssignColor ==
    /\ pc = "while"
    /\ color \notin used_neighbor_colors
    /\ colors' = [x \in DOMAIN colors \cup {node} |->
                     IF x = node THEN color ELSE colors[x]]
    /\ pos' = pos + 1
    /\ pc' = "greedy"
    /\ UNCHANGED <<adjacency, i, nodes, node, used_neighbor_colors, color, result_gdf>>
    /\ ColorRest

\* lines 335-342, and main line 396
FinishColoring ==
    /\ pc = "greedy"
    /\ pos = Len(nodes)
    /\ result_gdf' = [x \in DOMAIN gdf |->
           [zip_code |-> gdf[x].zip_code,
            geometry |-> gdf[x].geometry,
            point_count |-> gdf[x].point_count,
            area_km2 |-> gdf[x].area_km2,
            method |-> gdf[x].method,
            color_index |-> colors[x]]]
    /\ pc' = "export"
    /\ UNCHANGED colorVars
    /\ ColorRest

\* main, line 410
Export ==
    /\ pc = "export"
    /\ exported' = result_gdf
    /\ pc' = "done"
    /\ UNCHANGED <<df, boundary_file, clip_boundary, voronoi_gdf, dissolved_gdf,
                   simplified_gdf, result_gdf, error>>
    /\ UNCHANGED colorVars

Next ==
    \/ LoadBoundary
    \/ FallbackToHull
    \/ GenerateVoronoi
    \/ Dissolve
    \/ SimplifyAndTag
    \/ StartColoring
    \/ BuildAdjacency
    \/ SortNodes
    \/ PickNode
    \/ NextColor
    \/ AssignColor
    \/ FinishColoring
    \/ Export

Spec == Init /\ [][Next]_vars

\* main runs each statement once the one before has returned
FairSpec == Spec /\ WF_vars(Next)

-----------------------------------------------------------------------------
(* apply_graph_coloring on its own, for every frame of up to MaxPolys polygons *)

ShapeSites == {<<0, 0>>, <<2, 0>>, <<0, 2>>}

\* the polygons of a frame: any set of the three sites, the empty geometry too
Shapes == {Geom({p}, TRUE) : p \in SUBSET ShapeSites}

\* the shapes of a chain: two sites and the span between them, and the empty
\* geometry; equal shapes meet, so a frame of them can be any clique as well
ChainShapes ==
    {Geom({p}, TRUE) : p \in {{}, {<<0, 0>>}, {<<0, 0>>, <<2, 0>>}, {<<2, 0>>}}}

PolyFramesOf(shapes) ==
    UNION {
        {[x \in 0..(n - 1) |->
             [zip_code |-> 10000 + x,
              geometry |-> g[x],
              point_count |-> 1,
              area_km2 |-> AreaKm2(g[x]),
              method |-> "voronoi"]] : g \in [0..(n - 1) -> shapes]}
        : n \in 1..MaxPolys}

PolyFrames == PolyFramesOf(Shapes)

ChainFrames == PolyFramesOf(ChainShapes)

ColoringInitOf(frames) ==
    /\ pc = "coloring"
    /\ simplified_gdf \in frames
    /\ df = NoFrame
    /\ boundary_file = [exists |-> FALSE, rows |-> <<>>]
    /\ clip_boundary = NoneGeom
    /\ voronoi_gdf = NoFrame
    /\ dissolved_gdf = NoFrame
    /\ adjacency = <<>>
    /\ i = 0
    /\ pos = 0
    /\ nodes = <<>>
    /\ colors = <<>>
    /\ node = 0
    /\ used_neighbor_colors = {}
    /\ color = 0
    /\ result_gdf = NoFrame
    /\ exported = NoFrame
    /\ error = ""

ColoringInit == ColoringInitOf(PolyFrames)

ChainInit == ColoringInitOf(ChainFrames)

ColoringNext ==
    \/ StartColoring
    \/ BuildAdjacency
    \/ SortNodes
    \/ PickNode
    \/ NextColor
    \/ AssignColor
    \/ FinishColoring

ColoringSpec == ColoringInit /\ [][ColoringNext]_vars

\* the loops of apply_graph_coloring run on until they return
ColoringFairSpec == ChainInit /\ [][ColoringNext]_vars /\ WF_vars(ColoringNext)

-----------------------------------------------------------------------------
(* Claims *)

Colored == pc \in {"export", "done"}

Adjacent(x, y) == x # y /\ (y \in adjacency[x] \/ x \in adjacency[y])

Degree(x) == Cardinality(adjacency[x])

MaxDegree == Max({Degree(x) : x \in DOMAIN adjacency})

\* C1: once apply_graph_coloring has returned, any two different polygons of
\* which one is in the other's adjacency set have different color_index values.
C1_AdjacentDiffer ==
    Colored =>
        \A x, y \in DOMAIN result_gdf :
            Adjacent(x, y) => result_gdf[x].color_index # result_gdf[y].color_index

C1_Witness ==
    /\ pc = "export"
    /\ Len0(result_gdf) = MaxPolys
    /\ \E x, y, z \in DOMAIN result_gdf :
         Adjacent(x, y) /\ Adjacent(y, z) /\ ~Adjacent(x, z) /\ x # z

\* C2: every colour handed out lies between 0 and the largest degree of the
\* graph, so at most (largest degree + 1) colours are in use.
C2_ColorsWithinMaxDegree ==
    /\ pc \in {"greedy", "while"} =>
          \A x \in DOMAIN colors : colors[x] >= 0 /\ colors[x] <= MaxDegree
    /\ Colored =>
          /\ \A x \in DOMAIN result_gdf :
                /\ result_gdf[x].color_index >= 0
                /\ result_gdf[x].color_index <= MaxDegree
          /\ Cardinality({result_gdf[x].color_index : x \in DOMAIN result_gdf})
                <= MaxDegree + 1

C2_Witness ==
    /\ pc = "export"
    /\ MaxDegree >= 2
    /\ \E x \in DOMAIN result_gdf : result_gdf[x].color_index = MaxDegree

\* C3: the colouring terminates: the node loop and the search for a free
\* colour both end, and then every node 0..n-1 has a colour.
C3_ColoringTerminates ==
    <>(pc = "export" /\ DOMAIN colors = DOMAIN gdf /\ DOMAIN result_gdf = DOMAIN gdf)

C3_Witness ==
    /\ pc = "export"
    /\ Len0(gdf) = MaxPolys
    /\ \E x \in DOMAIN colors : colors[x] >= 2

RowsWithCode(frame, z) == {r \in DOMAIN frame : frame[r].zip_code = z}

\* a frame with one row per ZIP code of the points and the right counts
OnePerCode(frame) ==
    /\ {frame[x].zip_code : x \in DOMAIN frame} = Codes(df)
    /\ Len0(frame) = Cardinality(Codes(df))
    /\ \A x \in DOMAIN frame :
          frame[x].point_count = Cardinality(RowsWithCode(df, frame[x].zip_code))

\* C4: the output has exactly one record per postal code of the input points,
\* and a record's point_count is the number of input points with its code.
C4_OneRecordPerCode ==
    /\ pc \notin {"load_boundary", "fallback", "voronoi", "dissolve", "crashed"}
          => OnePerCode(dissolved_gdf)
    /\ pc = "done" => OnePerCode(exported)

C4_Witness ==
    /\ pc = "done"
    /\ Len0(df) = MaxPoints
    /\ \E x, y \in DOMAIN exported :
          exported[x].point_count = 1 /\ exported[y].point_count = MaxPoints - 1

PointOf(r) == <<df[r].lon, df[r].lat>>

NoBoundarySource == ~boundary_file.exists \/ Len(boundary_file.rows) = 0

\* C6: with the boundary source missing or empty the run does not fail: the
\* absence comes back as None, the hull fallback supplies the clip boundary,
\* and the Voronoi stage never sees an absent boundary.
C6_MissingBoundaryRecovered ==
    NoBoundarySource =>
        /\ ~(pc = "crashed" /\ error \in {"AttributeError", "QhullError"})
        /\ pc \notin {"load_boundary", "fallback", "crashed"}
              => clip_boundary # NoneGeom

\* C7: whichever path supplies the clip boundary, a boundary file (multi-part
\* ones unioned) or the hull fallback, the clipping stage is handed a single
\* valid polygon.
C7_SingleValidPolygon ==
    /\ pc \notin {"load_boundary", "fallback", "crashed"}
          => /\ clip_boundary.type = "Polygon"
             /\ Cardinality(clip_boundary.parts) <= 1
             /\ clip_boundary.valid
    /\ ~NoBoundarySource => ~(pc = "crashed" /\ error = "AttributeError")

\* C8: a postal code with a single point is in the output with method buffer,
\* whatever the size of the dataset.
C8_SinglePointIsBuffer ==
    pc = "done" =>
        \A x \in DOMAIN exported :
            exported[x].point_count = 1 => exported[x].method = "buffer"

\* C9: an exception while one polygon is built does not end the run: the
\* group is skipped and the other groups are produced, coloured and exported.
C9_FailureIsolated ==
    ~(pc = "crashed" /\ error = "GEOSException")

\* C10: every polygon that reaches the colouring and the export is valid: an
\* invalid one is repaired once, and one that stays invalid is left out.
C10_OnlyValidGeometry ==
    pc \in {"coloring", "adjacency", "greedy", "while", "export", "done"} =>
        \A x \in DOMAIN simplified_gdf : simplified_gdf[x].geometry.valid

\* x is processed before y: higher degree first, equal degrees by row index
Precedes(x, y) == Degree(x) > Degree(y) \/ (Degree(x) = Degree(y) /\ x < y)

Uncolored == DOMAIN gdf \ DOMAIN colors

\* C11: the nodes are coloured in order of descending degree, equal degrees in
\* ascending row index: every node coloured so far precedes every node not yet
\* coloured, and the node in hand precedes all the other uncoloured ones.
C11_DescendingDegreeOrder ==
    /\ pc \in {"greedy", "while", "export"} =>
          \A x \in DOMAIN colors : \A y \in Uncolored : Precedes(x, y)
    /\ pc = "while" =>
          /\ node \in Uncolored
          /\ \A y \in Uncolored \ {node} : Precedes(node, y)

C11_Witness ==
    /\ pc = "while"
    /\ \E x \in DOMAIN colors : \E y \in Uncolored :
          x > y /\ Degree(x) > Degree(y)
    /\ \E y \in Uncolored \ {node} : Degree(y) = Degree(node)

\* the smallest non-negative integer that is not in S
SmallestFree(S) ==
    CHOOSE c \in 0..Cardinality(S) : c \notin S /\ \A d \in 0..(c - 1) : d \in S

\* the place of x in the processing order
PlaceOf(x) == CHOOSE k \in 1..Len(nodes) : nodes[k] = x

\* the neighbours of x that were coloured before x was
EarlierNeighbors(x) == {y \in adjacency[x] : PlaceOf(y) < PlaceOf(x)}

\* C12: a coloured node holds the smallest non-negative integer that none of
\* its neighbours coloured before it holds (later neighbours do not count), and
\* a colour once recorded never changes.
C12_SmallestFreeColor ==
    /\ [](pc \in {"greedy", "while", "export"} =>
             \A x \in DOMAIN colors :
                 colors[x] = SmallestFree({colors[y] : y \in EarlierNeighbors(x)}))
    /\ [](pc = "export" =>
             \A x \in DOMAIN gdf : result_gdf[x].color_index = colors[x])
    /\ [][\A x \in DOMAIN colors : x \in DOMAIN colors' /\ colors'[x] = colors[x]]_vars

C12_Witness ==
    /\ pc = "greedy"
    /\ \E x \in DOMAIN colors :
          /\ colors[x] >= 1
          /\ adjacency[x] \cap Uncolored # {}
          /\ \E y \in EarlierNeighbors(x) : y > x

\* the adjacency structure is complete: the loop of lines 307-316 has ended
GraphBuilt == pc \in {"greedy", "while", "export", "done"}

\* C13: the finished adjacency structure has one entry per node 0..n-1, no node
\* is its own neighbour, and j is a neighbour of i exactly when i is one of j.
C13_AdjacencySymmetric ==
    GraphBuilt =>
        /\ DOMAIN adjacency = DOMAIN gdf
        /\ \A x \in DOMAIN adjacency :
              /\ x \notin adjacency[x]
              /\ adjacency[x] \subseteq DOMAIN gdf
              /\ \A y \in DOMAIN adjacency : y \in adjacency[x] <=> x \in adjacency[y]

C13_Witness ==
    /\ pc = "greedy"
    /\ Len0(gdf) = MaxPolys
    /\ \E x, y, z \in DOMAIN adjacency :
          /\ y \in adjacency[x]
          /\ z \notin adjacency[x] /\ z # x
          /\ Cells(gdf[z].geometry) # {}

\* apply_graph_coloring has been entered (main, line 396)
InColoring == pc \in {"coloring", "adjacency", "greedy", "while", "export", "done"}

\* C14: the stages run in a fixed order, each one complete before the next:
\* the clip boundary is there before any cell exists; every cell comes from the
\* diagram of all the points; every code is dissolved and simplified before the
\* adjacency structure is begun; colours are handed out only on the full graph;
\* and once colouring has begun neither the graph nor any geometry changes.
C14_StagesInOrder ==
    /\ [](voronoi_gdf # NoFrame => clip_boundary # NoneGeom)
    /\ [](pc \in {"load_boundary", "fallback", "voronoi"} =>
             voronoi_gdf = NoFrame /\ dissolved_gdf = NoFrame /\ simplified_gdf = NoFrame)
    /\ [](voronoi_gdf # NoFrame =>
             \A r \in DOMAIN voronoi_gdf : \A s \in Cells(voronoi_gdf[r].geometry) :
                 \A q \in DOMAIN df : Dist2(s, PointOf(r)) <= Dist2(s, PointOf(q)))
    /\ [](adjacency # <<>> =>
             /\ InColoring
             /\ DOMAIN simplified_gdf = DOMAIN dissolved_gdf
             /\ {simplified_gdf[x].zip_code : x \in DOMAIN simplified_gdf} = Codes(df))
    /\ []((pc = "while" \/ colors # <<>>) =>
             \A x \in DOMAIN gdf : adjacency[x] = Neighbors(gdf, x))
    /\ [](pc = "done" =>
             \A x \in DOMAIN gdf : exported[x].geometry = simplified_gdf[x].geometry)
    /\ [][pc \notin {"load_boundary", "fallback"} => clip_boundary' = clip_boundary]_vars
    /\ [][InColoring => simplified_gdf' = simplified_gdf]_vars
    /\ [][GraphBuilt => adjacency' = adjacency]_vars

C14_Witness ==
    /\ pc = "done"
    /\ Len0(df) >= MIN_VORONOI_POINTS
    /\ Len0(exported) >= 2
    /\ \E x \in DOMAIN adjacency : adjacency[x] # {}
    /\ \E x \in DOMAIN exported : exported[x].color_index >= 1

\* the buffer of row r's point, as lines 133 and 150 build it
BufferOf(r) == PointBuffer(PointOf(r), meters_to_degrees(BUFFER_RADIUS_METERS))

Inside(g, h) == Cells(g) \subseteq Cells(h)

ColorsInUse == {result_gdf[x].color_index : x \in DOMAIN result_gdf}

\* max_colors of line 338
max_colors == Max(ColorsInUse) + 1

\* C16: the colouring is tight: a node of colour c > 0 has a neighbour of every
\* colour below c, so the colours in use are exactly 0..k-1 and the reported
\* count (largest color_index + 1) is the number of distinct colours.
C16_TightColoring ==
    Colored =>
        /\ \A x \in DOMAIN result_gdf :
              \A c \in 0..(result_gdf[x].color_index - 1) :
                  \E y \in adjacency[x] : result_gdf[y].color_index = c
        /\ ColorsInUse = 0..(max_colors - 1)
        /\ max_colors = Cardinality(ColorsInUse)

C16_Witness ==
    /\ pc = "export"
    /\ max_colors >= 3
    /\ \E y, z \in DOMAIN result_gdf :
          /\ y # z /\ ~Adjacent(y, z)
          /\ result_gdf[y].color_index = 0 /\ result_gdf[z].color_index = 0

====
